---- MODULE Spec2Model ----
(***************************************************************************)
(* Webhook ingestion and session grouping of devlog-backend.               *)
(*                                                                         *)
(* The store (webhook_events, repositories, commits, coding_sessions) is   *)
(* held in four variables.  One action stands for one handler: the webhook *)
(* endpoint (GitHubWebhookView.post), one execution of the celery task     *)
(* (tasks.process_push_event, autoretry included), the session grouping    *)
(* endpoint (SessionGroupView.post) and the passing of time.               *)
(* secret is settings.GITHUB_WEBHOOK_SECRET ("" when not configured); last *)
(* is what the handler that took the step answered; timeouts counts the    *)
(* runs the soft time limit has interrupted; procs holds, for the workers   *)
(* and grouping requests that run side by side, where each one stands and  *)
(* what it holds in memory or in its open transaction.                     *)
(*                                                                         *)
(* Times are whole minutes.  NULL is None for strings, 0 for row ids and   *)
(* NoTime for timestamps.                                                  *)
(***************************************************************************)
EXTENDS Integers, Sequences, FiniteSets, TLC

VARIABLES events, queue, repos, commits, sessions, now, secret, timeouts, last,
          procs

vars == <<events, queue, repos, commits, sessions, now, secret, timeouts, last,
         procs>>

None == "None"
NoTime == -1

\* ------------------------------------------------------------------ bounds
MaxTicks == 1
MaxTimeouts == 1

\* ------------------------------------------------------- program constants
SESSION_TIMEOUT_MINUTES == 30
CutoffMinutes == 7 * 24 * 60
max_retries == 3
Secrets == {"", "k"}

\* ------------------------------------------------------------ the accounts
Users == {"u1", "u2"}

Email(u) == IF u = "u1" THEN "e1" ELSE "e2"

\* ------------------------------------------------------------- the inputs
Now0 == 20000
OldBase == Now0 - CutoffMinutes - 200
BadTimestamp == -2

Shas == {"s1", "s2", "s3", "s4", "s5", "s6"}

\* the 'timestamp' string a commit descriptor carries
TimestampOf(sha) ==
    CASE sha = "s1" -> OldBase
      [] sha = "s2" -> OldBase + 30
      [] sha = "s3" -> OldBase + 61
      [] sha = "s4" -> Now0 - 20
      [] sha = "s6" -> OldBase + 15
      [] OTHER      -> BadTimestamp

Payload(full_name, gid, email, commit_list) ==
    [full_name |-> full_name, gid |-> gid, email |-> email, commits |-> commit_list]

NoName == None

\* the push payloads that are sent: repository A (GitHub id 7) and
\* repository B (no id in the payload) of u1, B of u2, a pusher without an
\* account, a payload without repository.full_name
Payloads ==
    { Payload("A", 7, "e1", l) :
        l \in { <<>>, <<"s1", "s2">>, <<"s1", "s3">>, <<"s2">>, <<"s2", "s3">>,
                <<"s1", "s1">>, <<"s4", "s5">>, <<"s6">> } }
    \cup { Payload("B", 0, "e1", l) : l \in { <<"s2">>, <<"s1", "s2">> } }
    \cup { Payload("B", 0, "e2", <<"s3">>),
           Payload("A", 7, "eX", <<"s1", "s2">>),
           Payload(NoName, 7, "eX", <<"s1", "s2">>) }

DeliveryIds == {"d1", "d2"}

\* ---------------------------------------------------------- WebhookEvent
\* history lists the status values saved to the row, oldest first; it is
\* part of the row, so a rollback takes the saves of the transaction back.
mark_processing(ev) ==
    [ev EXCEPT !.status = "processing",
               !.history = Append(@, "processing")]

mark_completed(ev, t) ==
    [ev EXCEPT !.status = "completed",
               !.processed_at = t,
               !.history = Append(@, "completed")]

mark_failed_without_message(ev, error, t) ==
    [ev EXCEPT !.status = "failed",
               !.processed_at = t,
               !.history = Append(@, "failed")]

mark_failed(ev, error, t) ==
    [ev EXCEPT !.status = "failed",
               !.error_message = error,
               !.processed_at = t,
               !.history = Append(@, "failed")]

\* the store as one value: what a transaction reads, writes and rolls back
Store == [events |-> events, repos |-> repos, commits |-> commits,
          sessions |-> sessions]

SetEvent(db, eid, ev) == [db EXCEPT !.events[eid] = ev]

\* outcomes of a call: a return value or an exception.  broken says the
\* exception was a database error inside the atomic block, after which the
\* connection refuses every query until the block ends.
Ret(db, value) ==
    [db |-> db, raised |-> FALSE, exc |-> None, broken |-> FALSE, value |-> value]

Exc(db, exc, broken) ==
    [db |-> db, raised |-> TRUE, exc |-> exc, broken |-> broken, value |-> None]

Max(S) == CHOOSE x \in S : \A y \in S : y <= x
Min(S) == CHOOSE x \in S : \A y \in S : x <= y

\* ------------------------------------------------- WebhookProcessor parts
resolve_user_email_first(db, pusher_email, repo_github_id) ==
    LET byRepo == {i \in DOMAIN db.repos : db.repos[i].github_id = repo_github_id}
        byEmail == {u \in Users : Email(u) = pusher_email}
    IN IF pusher_email # None /\ byEmail # {}
         THEN CHOOSE u \in byEmail : TRUE
         ELSE IF repo_github_id # 0 /\ byRepo # {}
                THEN db.repos[Max(byRepo)].user
                ELSE None

resolve_user(db, pusher_email, repo_github_id) ==
    LET byRepo == {i \in DOMAIN db.repos : db.repos[i].github_id = repo_github_id}
        byEmail == {u \in Users : Email(u) = pusher_email}
    IN IF repo_github_id # 0 /\ byRepo # {}
         THEN db.repos[Max(byRepo)].user
         ELSE IF pusher_email # None /\ byEmail # {}
                THEN CHOOSE u \in byEmail : TRUE
                ELSE None

\* INSERT into repositories: github_id is unique over the whole table
RepositoryCreate(db, user, github_id, full_name) ==
    IF \E i \in DOMAIN db.repos : db.repos[i].github_id = github_id
      THEN Exc(db, "IntegrityError", TRUE)
      ELSE Ret([db EXCEPT !.repos = Append(@,
                   [id |-> Len(db.repos) + 1, user |-> user,
                    github_id |-> github_id, full_name |-> full_name])],
               Len(db.repos) + 1)

\* the two lookups of lines 109-130 alone: the row found, or 0
lookup_repository(db, full_name, github_id, user) ==
    LET byId == {i \in DOMAIN db.repos :
                    db.repos[i].github_id = github_id /\ db.repos[i].user = user}
        byName == {i \in DOMAIN db.repos :
                    db.repos[i].full_name = full_name /\ db.repos[i].user = user}
    IN IF github_id # 0 /\ byId # {}
         THEN Ret(db, CHOOSE i \in byId : TRUE)
         ELSE IF Cardinality(byName) = 1
                THEN Ret(db, CHOOSE i \in byName : TRUE)
                ELSE IF Cardinality(byName) > 1
                       THEN Exc(db, "MultipleObjectsReturned", FALSE)
                       ELSE Ret(db, 0)

get_or_create_repository(db, full_name, github_id, user) ==
    LET byId == {i \in DOMAIN db.repos :
                    db.repos[i].github_id = github_id /\ db.repos[i].user = user}
        byName == {i \in DOMAIN db.repos :
                    db.repos[i].full_name = full_name /\ db.repos[i].user = user}
    IN IF github_id # 0 /\ byId # {}
         THEN Ret(db, CHOOSE i \in byId : TRUE)
         ELSE IF Cardinality(byName) = 1
                THEN Ret(db, CHOOSE i \in byName : TRUE)
                ELSE IF Cardinality(byName) > 1
                       THEN Exc(db, "MultipleObjectsReturned", FALSE)
                       ELSE RepositoryCreate(db, user, github_id, full_name)

parse_timestamp(timestamp_str, t) ==
    IF timestamp_str = BadTimestamp THEN t ELSE timestamp_str

\* INSERT into commits: sha is unique over the whole table
CommitCreate(db, repository, sha, committed_at) ==
    IF \E i \in DOMAIN db.commits : db.commits[i].sha = sha
      THEN Exc(db, "IntegrityError", TRUE)
      ELSE Ret([db EXCEPT !.commits = Append(@,
                   [id |-> Len(db.commits) + 1, repository |-> repository,
                    session |-> 0, sha |-> sha, committed_at |-> committed_at])],
               Len(db.commits) + 1)

ShaExists(db, sha) == \E i \in DOMAIN db.commits : db.commits[i].sha = sha

RECURSIVE process_commits_counting_skipped(_, _, _, _, _)
process_commits_counting_skipped(db, repository, commits_data, t, commits_created) ==
    IF commits_data = <<>>
      THEN Ret(db, commits_created)
      ELSE LET sha == Head(commits_data)
               rest == Tail(commits_data)
           IN IF sha = None
                THEN process_commits_counting_skipped(db, repository, rest, t,
                                                      commits_created)
                ELSE IF ShaExists(db, sha)
                  THEN process_commits_counting_skipped(db, repository, rest, t,
                                                        commits_created + 1)
                  ELSE LET c == CommitCreate(db, repository, sha,
                                             parse_timestamp(TimestampOf(sha), t))
                       IN IF c.raised
                            THEN c
                            ELSE process_commits_counting_skipped(
                                     c.db, repository, rest, t, commits_created + 1)

RECURSIVE process_commits(_, _, _, _, _)
process_commits(db, repository, commits_data, t, commits_created) ==
    IF commits_data = <<>>
      THEN Ret(db, commits_created)
      ELSE LET sha == Head(commits_data)
               rest == Tail(commits_data)
           IN IF sha = None \/ ShaExists(db, sha)
                THEN process_commits(db, repository, rest, t, commits_created)
                ELSE LET c == CommitCreate(db, repository, sha,
                                           parse_timestamp(TimestampOf(sha), t))
                     IN IF c.raised
                          THEN c
                          ELSE process_commits(c.db, repository, rest, t,
                                               commits_created + 1)

\* SessionGrouper(threshold_minutes=30) does not match
\* SessionGrouper.__init__(self, user): the call raises TypeError
group_sessions(db, repository, t) ==
    LET ungrouped_commits ==
            {i \in DOMAIN db.commits :
                /\ db.commits[i].repository = repository
                /\ db.commits[i].session = 0
                /\ db.commits[i].committed_at >= t - CutoffMinutes}
    IN IF ungrouped_commits = {}
         THEN Ret(db, 0)
         ELSE Exc(db, "TypeError", FALSE)

\* ------------------------------------- WebhookProcessor.process_push_event
Result(commits_created, sessions_created, error) ==
    [commits_created |-> commits_created, sessions_created |-> sessions_created,
     error |-> error]

NoResult == Result(-1, -1, None)

\* where SoftTimeLimitExceeded may strike a run ("none": it does not)
Faults == {"none", "begin", "resolved", "repository", "commits", "grouped"}

SoftTimeLimitExceeded == "SoftTimeLimitExceeded"

NoCommitsNeverSkips(commits_data) == FALSE

NoCommits(commits_data) == commits_data = <<>>

\* the try block, lines 44-92, one operator per stage: each takes what the
\* stage before it returned
\* lines 78-92: after _group_sessions returned g
AfterGrouping(eid, fault, t, commits_created, g) ==
    IF g.raised THEN g
    ELSE IF fault = "grouped" THEN Exc(g.db, SoftTimeLimitExceeded, FALSE)
    ELSE Ret(SetEvent(g.db, eid, mark_completed(g.db.events[eid], t)),
             Result(commits_created, g.value, None))

\* lines 75-79: after _process_commits returned c
AfterCommits(eid, fault, t, repository, c) ==
    IF c.raised THEN c
    ELSE IF fault = "commits" THEN Exc(c.db, SoftTimeLimitExceeded, FALSE)
    ELSE AfterGrouping(eid, fault, t, c.value, group_sessions(c.db, repository, t))

\* lines 68-76: after _get_or_create_repository returned r
AfterRepository(eid, fault, t, user, commits_data, r) ==
    IF r.raised THEN r
    ELSE IF fault = "repository" THEN Exc(r.db, SoftTimeLimitExceeded, FALSE)
    ELSE AfterCommits(eid, fault, t, r.value,
             process_commits(
                 SetEvent(r.db, eid, [r.db.events[eid] EXCEPT !.user = user]),
                 r.value, commits_data, t, 0))

\* lines 59-69: after _resolve_user returned user
AfterResolve(db, eid, fault, t, user) ==
    IF fault = "resolved" THEN Exc(db, SoftTimeLimitExceeded, FALSE)
    ELSE IF user = None
      THEN Ret(SetEvent(db, eid, mark_failed(db.events[eid], "no user found", t)),
               Result(0, 0, "User not found"))
      ELSE AfterRepository(eid, fault, t, user, db.events[eid].payload.commits,
               get_or_create_repository(db, db.events[eid].payload.full_name,
                                        db.events[eid].payload.gid, user))

\* lines 44-59
TryBlock(db, eid, fault, t) ==
    IF fault = "begin" THEN Exc(db, SoftTimeLimitExceeded, FALSE)
    ELSE IF db.events[eid].payload.full_name = NoName
      THEN Exc(db, "ValueError", FALSE)
    ELSE IF NoCommits(db.events[eid].payload.commits)
      THEN Ret(SetEvent(db, eid, mark_completed(db.events[eid], t)),
               Result(0, 0, None))
    ELSE AfterResolve(db, eid, fault, t,
             resolve_user(db, db.events[eid].payload.email,
                          db.events[eid].payload.gid))

\* the except clause, lines 94-97: save mark_failed(str(e)) and re-raise; on
\* a broken connection that save raises TransactionManagementError instead
ExceptClause(eid, t, r) ==
    IF ~r.raised THEN r
    ELSE IF r.broken
      THEN Exc(r.db, "TransactionManagementError", TRUE)
      ELSE Exc(SetEvent(r.db, eid, mark_failed(r.db.events[eid], r.exc, t)),
               r.exc, FALSE)

\* the function body, lines 38-97
Body(db, eid, fault, t) ==
    ExceptClause(eid, t,
        TryBlock(SetEvent(db, eid, mark_processing(db.events[eid])), eid, fault, t))

\* @transaction.atomic as the outermost block: commit on return, roll the
\* whole store back to its state at entry on an exception
atomic_without_rollback(db0, r) == r

atomic(db0, r) == IF r.raised THEN [r EXCEPT !.db = db0] ELSE r

process_push_event(db, eid, fault, t) == atomic(db, Body(db, eid, fault, t))

\* ----------------------------------------------- tasks.process_push_event
MaxRetriesMessage(exc) == "Max retries exceeded: " \o exc

TaskHandlers_after_max_retries(task, t, r) ==
    IF ~r.raised THEN r
    ELSE IF r.exc = SoftTimeLimitExceeded
      THEN Exc(SetEvent(r.db, task.event,
                   mark_failed(r.db.events[task.event], "Task timed out", t)),
               r.exc, FALSE)
    ELSE IF task.retries > max_retries
      THEN Exc(SetEvent(r.db, task.event,
                   mark_failed(r.db.events[task.event],
                               MaxRetriesMessage(r.exc), t)),
               r.exc, FALSE)
    ELSE Exc(r.db, r.exc, FALSE)

\* the except clauses of the task, lines 46-70, given what the processor
\* did (WebhookEvent rows are never deleted, so DoesNotExist is not raised)
TaskHandlers(task, t, r) ==
    IF ~r.raised THEN r
    ELSE IF r.exc = SoftTimeLimitExceeded
      THEN Exc(SetEvent(r.db, task.event,
                   mark_failed(r.db.events[task.event], "Task timed out", t)),
               r.exc, FALSE)
    ELSE IF task.retries >= max_retries
      THEN Exc(SetEvent(r.db, task.event,
                   mark_failed(r.db.events[task.event],
                               MaxRetriesMessage(r.exc), t)),
               r.exc, FALSE)
    ELSE Exc(r.db, r.exc, FALSE)

\* the task body, lines 33-70
TaskBody(db, task, fault, t) ==
    TaskHandlers(task, t, process_push_event(db, task.event, fault, t))

Retried_never(task, r) == FALSE

\* autoretry_for=(Exception,), max_retries=3: Task.retry re-sends the task
\* with retries + 1 unless that exceeds max_retries
Retried(task, r) == r.raised /\ task.retries + 1 <= max_retries

\* ------------------------------------------------------- CodingSession
Members(db, sid) == {i \in DOMAIN db.commits : db.commits[i].session = sid}

MemberTimes(db, sid) == {db.commits[i].committed_at : i \in Members(db, sid)}

update_stats_keeping_ended_at(db, sid) ==
    IF Members(db, sid) = {}
      THEN db
      ELSE LET started_at == Min(MemberTimes(db, sid))
               ended_at == db.sessions[sid].ended_at
           IN [db EXCEPT !.sessions[sid] =
                  [@ EXCEPT !.started_at = started_at,
                            !.ended_at = ended_at,
                            !.duration_minutes = ended_at - started_at,
                            !.total_commits = Cardinality(Members(db, sid))]]

update_stats(db, sid) ==
    IF Members(db, sid) = {}
      THEN db
      ELSE LET started_at == Min(MemberTimes(db, sid))
               ended_at == Max(MemberTimes(db, sid))
           IN [db EXCEPT !.sessions[sid] =
                  [@ EXCEPT !.started_at = started_at,
                            !.ended_at = ended_at,
                            !.duration_minutes = ended_at - started_at,
                            !.total_commits = Cardinality(Members(db, sid))]]

\* ------------------------------------------------------- SessionGrouper
is_new_session_at_threshold(last_time, current_time) ==
    IF last_time = NoTime
      THEN TRUE
      ELSE current_time - last_time >= SESSION_TIMEOUT_MINUTES

is_new_session(last_time, current_time) ==
    IF last_time = NoTime
      THEN TRUE
      ELSE current_time - last_time > SESSION_TIMEOUT_MINUTES

create_new_session(db, user, first_commit) ==
    [db EXCEPT !.sessions = Append(@,
        [id |-> Len(db.sessions) + 1, user |-> user,
         repository |-> first_commit.repository,
         started_at |-> first_commit.committed_at,
         ended_at |-> first_commit.committed_at,
         duration_minutes |-> 0, total_commits |-> 0])]

UngroupedOrGrouped(db, user) ==
    {i \in DOMAIN db.commits : db.repos[db.commits[i].repository].user = user}

\* the queryset of lines 105-108: the user's commits without a session
Ungrouped(db, user) ==
    {i \in DOMAIN db.commits :
        /\ db.repos[db.commits[i].repository].user = user
        /\ db.commits[i].session = 0}

\* order_by('committed_at'): every order the database may return, rows of
\* equal committed_at in either order
RECURSIVE OrderedBy(_, _)
OrderedBy(db, S) ==
    IF S = {}
      THEN {<<>>}
      ELSE LET first == Min({db.commits[i].committed_at : i \in S})
           IN UNION { { <<i>> \o rest : rest \in OrderedBy(db, S \ {i}) } :
                        i \in {j \in S : db.commits[j].committed_at = first} }

\* lines 125-130: the commit joins the session, the session is recomputed
Assign(db, cid, sid) ==
    update_stats([db EXCEPT !.commits[cid].session = sid], sid)

\* the loop of lines 118-132 over the rows still to visit
RECURSIVE GroupLoop(_, _, _, _, _, _)
GroupLoop(db, user, todo, current_session, last_commit_time, sessions_created) ==
    IF todo = <<>>
      THEN Ret(db, sessions_created)
      ELSE IF current_session = 0
              \/ is_new_session(last_commit_time, db.commits[Head(todo)].committed_at)
        THEN GroupLoop(
                 Assign(create_new_session(db, user, db.commits[Head(todo)]),
                        Head(todo), Len(db.sessions) + 1),
                 user, Tail(todo), Len(db.sessions) + 1,
                 db.commits[Head(todo)].committed_at, sessions_created + 1)
        ELSE GroupLoop(
                 Assign(db, Head(todo), current_session),
                 user, Tail(todo), current_session,
                 db.commits[Head(todo)].committed_at, sessions_created)

group_commits_resuming(db, user, ungrouped_commits) ==
    LET own == {i \in DOMAIN db.sessions : db.sessions[i].user = user}
    IN IF ungrouped_commits = <<>>
         THEN Ret(db, 0)
         ELSE IF own = {}
           THEN GroupLoop(db, user, ungrouped_commits, 0, NoTime, 0)
           ELSE GroupLoop(db, user, ungrouped_commits, Max(own),
                          db.sessions[Max(own)].ended_at, 0)

group_commits(db, user, ungrouped_commits) ==
    IF ungrouped_commits = <<>>
      THEN Ret(db, 0)
      ELSE GroupLoop(db, user, ungrouped_commits, 0, NoTime, 0)

\* ------------------------------------- GitHubService.sync_repositories
\* one entry of what GET /user/repos answers
RepoData(id, full_name) == [id |-> id, full_name |-> full_name]

\* the answers of GitHub: A has id 7 and B has id 9; repository 7 renamed
\* to B
Listings ==
    { <<>>,
      <<RepoData(7, "A")>>,
      <<RepoData(7, "A"), RepoData(9, "B")>>,
      <<RepoData(7, "B")>> }

\* GitHubRepository.objects.update_or_create(user=, github_id=, defaults=)
update_or_create(db, user, repo_data) ==
    LET found == {i \in DOMAIN db.repos :
                     /\ db.repos[i].user = user
                     /\ db.repos[i].github_id = repo_data.id}
    IN IF found # {}
         THEN Ret([db EXCEPT !.repos[CHOOSE i \in found : TRUE].full_name =
                                 repo_data.full_name],
                  CHOOSE i \in found : TRUE)
         ELSE RepositoryCreate(db, user, repo_data.id, repo_data.full_name)

\* the loop of lines 58-80: an entry whose save raises is logged and skipped
RECURSIVE sync_repositories(_, _, _, _)
sync_repositories(db, user, repos_data, synced_count) ==
    IF repos_data = <<>>
      THEN Ret(db, synced_count)
      ELSE LET r == update_or_create(db, user, Head(repos_data))
           IN IF r.raised
                THEN sync_repositories(db, user, Tail(repos_data), synced_count)
                ELSE sync_repositories(r.db, user, Tail(repos_data),
                                       synced_count + 1)

\* ------------------------------------------------------------ webhooks.utils
Prefix == [kind |-> "sha256="]

HMAC(key, msg) == [kind |-> "hex", key |-> key, msg |-> msg]

\* a header is a sequence of tokens; split('sha256=')[-1] is what follows
\* the last prefix token
RECURSIVE AfterLastPrefix(_)
AfterLastPrefix(header) ==
    IF \E i \in DOMAIN header : header[i] = Prefix
      THEN AfterLastPrefix(Tail(header))
      ELSE header

verify_github_signature(payload_body, signature_header, key) ==
    IF signature_header = <<>>
      THEN FALSE
      ELSE IF Head(signature_header) # Prefix
        THEN FALSE
        ELSE AfterLastPrefix(signature_header) = <<HMAC(key, payload_body)>>

extract_event_type_as_sent(event_header) == event_header

extract_event_type(event_header) ==
    IF event_header \in {"push", "pull_request", "ping"}
      THEN event_header
      ELSE "other"

\* ------------------------------------------------------ GitHubWebhookView
verify_signature_with_any_secret(payload_body, signature) ==
    verify_github_signature(payload_body, signature, secret)

verify_signature(payload_body, signature) ==
    IF secret = ""
      THEN FALSE
      ELSE verify_github_signature(payload_body, signature, secret)

\* INSERT into webhook_events: delivery_id is unique
WebhookEventCreateNotUnique(db, event_type, repo_full_name, delivery_id, payload) ==
    Ret([db EXCEPT !.events = Append(@,
            [id |-> Len(db.events) + 1, event_type |-> event_type,
             repository_full_name |-> repo_full_name,
             delivery_id |-> delivery_id, payload |-> payload,
             status |-> "pending", error_message |-> None, user |-> None,
             processed_at |-> NoTime, history |-> <<"pending">>])],
        Len(db.events) + 1)

WebhookEventCreate(db, event_type, repo_full_name, delivery_id, payload) ==
    IF \E i \in DOMAIN db.events : db.events[i].delivery_id = delivery_id
      THEN Exc(db, "IntegrityError", FALSE)
      ELSE Ret([db EXCEPT !.events = Append(@,
                   [id |-> Len(db.events) + 1, event_type |-> event_type,
                    repository_full_name |-> repo_full_name,
                    delivery_id |-> delivery_id, payload |-> payload,
                    status |-> "pending", error_message |-> None, user |-> None,
                    processed_at |-> NoTime, history |-> <<"pending">>])],
               Len(db.events) + 1)

\* a request body: a JSON document, or bytes that json.loads rejects
PingPayload == [full_name |-> "A", gid |-> 7, email |-> "e1", commits |-> <<>>]

JsonBody(p) == [parses |-> TRUE, payload |-> p]

NotJson == [parses |-> FALSE, payload |-> PingPayload]

Signed(body) == <<Prefix, HMAC("k", body)>>

Request(event_header, signature, body, delivery_id) ==
    [event_header |-> event_header, signature |-> signature, body |-> body,
     delivery_id |-> delivery_id]

PushRequests ==
    { Request("push", Signed(JsonBody(p)), JsonBody(p), d) :
        p \in Payloads, d \in DeliveryIds }

OtherRequests ==
    { Request(h, Signed(JsonBody(PingPayload)), JsonBody(PingPayload), d) :
        h \in {"pull_request", "issues", "ping"}, d \in DeliveryIds }

RejectedRequests ==
    { Request("push", sg, b, "d1") :
        sg \in { <<>>,
                 <<HMAC("k", JsonBody(PingPayload))>>,
                 <<Prefix, HMAC("wrong", JsonBody(PingPayload))>>,
                 Signed(NotJson) },
        b \in {JsonBody(PingPayload), NotJson} }

Requests == PushRequests \cup OtherRequests \cup RejectedRequests

\* headers that are not 'sha256=' followed by one digest: no digest, text
\* after the digest, the prefix twice, text and a second prefix before the
\* digest
MalformedHeaders(body) ==
    { <<Prefix>>,
      <<Prefix, HMAC("k", body), HMAC("k", body)>>,
      <<Prefix, Prefix, HMAC("k", body)>>,
      <<Prefix, HMAC("wrong", body), Prefix, HMAC("k", body)>> }

MalformedRequests ==
    { Request("push", sg, b, d) :
        sg \in MalformedHeaders(JsonBody(PingPayload)),
        b \in {JsonBody(PingPayload), NotJson}, d \in DeliveryIds }

\* requests signed with the empty key, and a late delivery of a request that
\* is rejected
EmptyKeyRequests ==
    { Request(h, <<Prefix, HMAC("", b)>>, b, d) :
        h \in {"push", "ping"}, b \in {JsonBody(PingPayload), NotJson},
        d \in DeliveryIds }

LateRequests ==
    { Request(h, sg, b, "d2") :
        h \in {"push", "ping"},
        sg \in { <<>>, Signed(NotJson) }, b \in {NotJson} }

HttpRequests ==
    Requests \cup MalformedRequests \cup EmptyKeyRequests \cup LateRequests

\* GitHub numbers its deliveries: a request carries the next fresh delivery
\* id, or is the re-delivery of an earlier request under its old id
Deliverable(db, req) ==
    LET used == {db.events[i].delivery_id : i \in DOMAIN db.events}
    IN IF req.delivery_id \in used
         THEN \E i \in DOMAIN db.events :
                 /\ db.events[i].delivery_id = req.delivery_id
                 /\ db.events[i].payload = req.body.payload
                 /\ db.events[i].event_type = extract_event_type(req.event_header)
         ELSE req.delivery_id = "d1" \/ "d1" \in used

\* the requests of a sender that holds the secret
SignedRequests == { req \in Requests : req.signature = Signed(req.body)
                                        /\ req.body.parses
                                        /\ req.event_header # "ping" }

Response(db, q, status, event) ==
    [db |-> db, queue |-> q, status |-> status, event |-> event]

AfterCreate_without_delay(db, q, event_type, t, c) ==
    IF c.raised
      THEN Response(db, q, 500, 0)
      ELSE IF event_type = "push"
        THEN Response(c.db, q, 202, c.value)
        ELSE Response(SetEvent(c.db, c.value,
                          mark_completed(c.db.events[c.value], t)),
                      q, 202, c.value)

\* lines 88-101: after WebhookEvent.objects.create returned c; an exception
\* that leaves the view is answered 500
AfterCreate(db, q, event_type, t, c) ==
    IF c.raised
      THEN Response(db, q, 500, 0)
      ELSE IF event_type = "push"
        THEN Response(c.db, q \cup {[event |-> c.value, retries |-> 0]},
                      202, c.value)
        ELSE Response(SetEvent(c.db, c.value,
                          mark_completed(c.db.events[c.value], t)),
                      q, 202, c.value)

post_parsing_first(db, q, req, t) ==
    IF ~req.body.parses
      THEN Response(db, q, 400, 0)
    ELSE IF ~verify_signature(req.body, req.signature)
      THEN Response(db, q, 403, 0)
    ELSE IF req.event_header = "ping"
      THEN Response(db, q, 200, 0)
    ELSE AfterCreate(db, q, extract_event_type(req.event_header), t,
             WebhookEventCreate(db, extract_event_type(req.event_header),
                 IF req.body.payload.full_name = NoName
                   THEN "unknown" ELSE req.body.payload.full_name,
                 req.delivery_id, req.body.payload))

\* GitHubWebhookView.post, lines 44-101
post(db, q, req, t) ==
    IF ~verify_signature(req.body, req.signature)
      THEN Response(db, q, 403, 0)
    ELSE IF ~req.body.parses
      THEN Response(db, q, 400, 0)
    ELSE IF req.event_header = "ping"
      THEN Response(db, q, 200, 0)
    ELSE AfterCreate(db, q, extract_event_type(req.event_header), t,
             WebhookEventCreate(db, extract_event_type(req.event_header),
                 IF req.body.payload.full_name = NoName
                   THEN "unknown" ELSE req.body.payload.full_name,
                 req.delivery_id, req.body.payload))

\* ---------------------------------------------------------------- actions
\* the celery workers and the grouping requests that may run side by side
Workers == {"w1", "w2"}
Groupers == {"g1", "g2"}

Idle == [pc |-> "idle"]

Init ==
    /\ events = <<>>
    /\ queue = {}
    /\ repos = <<>>
    /\ commits = <<>>
    /\ sessions = <<>>
    /\ now = Now0
    /\ secret = "k"
    /\ timeouts = 0
    /\ last = [op |-> "init"]
    /\ procs = [p \in Workers \cup Groupers |-> Idle]

PostEffect(req, r) ==
    /\ events' = r.db.events
    /\ queue' = r.queue
    /\ last' = [op |-> "post", delivery_id |-> req.delivery_id,
                header |-> req.event_header, signature |-> req.signature,
                body |-> req.body,
                status |-> r.status, event |-> r.event]

Post(req) ==
    /\ Deliverable(Store, req)
    /\ PostEffect(req, post(Store, queue, req, now))
    /\ UNCHANGED <<repos, commits, sessions, now, secret, timeouts, procs>>

TaskEffect(task, r, b) ==
    /\ events' = r.db.events
    /\ repos' = r.db.repos
    /\ commits' = r.db.commits
    /\ sessions' = r.db.sessions
    /\ queue' = (queue \ {task}) \cup
                (IF Retried(task, r)
                   THEN {[task EXCEPT !.retries = @ + 1]} ELSE {})
    /\ last' = [op |-> "task", event |-> task.event,
                raised |-> r.raised, exc |-> r.exc,
                result |-> IF r.raised THEN NoResult ELSE r.value,
                wrote |-> (b.db.repos # repos \/ b.db.commits # commits)]

\* one execution of the task by a worker; wrote tells whether the function
\* body had inserted rows when it returned or raised
RunTask(task, fault) ==
    /\ task \in queue
    /\ fault # "none" => timeouts < MaxTimeouts
    /\ timeouts' = IF fault = "none" THEN timeouts ELSE timeouts + 1
    /\ \E r \in {TaskBody(Store, task, fault, now)},
          b \in {Body(Store, task.event, fault, now)} : TaskEffect(task, r, b)
    /\ UNCHANGED <<now, secret, procs>>

GroupEffect(user, r) ==
    /\ commits' = r.db.commits
    /\ sessions' = r.db.sessions
    /\ last' = [op |-> "group", user |-> user, count |-> r.value]

\* SessionGroupView.post for an authenticated user
GroupCommits(user) ==
    /\ \E ungrouped_commits \in OrderedBy(Store, Ungrouped(Store, user)) :
         GroupEffect(user, group_commits(Store, user, ungrouped_commits))
    /\ UNCHANGED <<events, queue, repos, now, secret, timeouts, procs>>

Tick ==
    /\ now < Now0 + MaxTicks
    /\ now' = now + 1
    /\ last' = [op |-> "tick"]
    /\ UNCHANGED <<events, queue, repos, commits, sessions, secret, timeouts, procs>>

Next ==
    \/ \E req \in SignedRequests : Post(req)
    \/ \E task \in queue, fault \in Faults : RunTask(task, fault)
    \/ \E user \in Users : GroupCommits(user)
    \/ Tick

Spec == Init /\ [][Next]_vars

\* a worker takes every task that waits in the queue: the broker delivers
\* each message it holds, the retries (sent with a countdown) included
RunSomeTask == \E task \in queue, fault \in Faults : RunTask(task, fault)

\* pushes of every outcome: nothing to do, old commits, recent commits
\* (TypeError from _group_sessions), no account, no repository name
FairRequests ==
    { req \in SignedRequests :
        req.event_header = "push" =>
            \/ req.body.payload.email = "eX"
            \/ /\ req.body.payload.full_name = "A"
               /\ req.body.payload.commits
                     \in {<<>>, <<"s1", "s2">>, <<"s4", "s5">>} }

NextFair ==
    \/ \E req \in FairRequests : Post(req)
    \/ RunSomeTask

\* what a step of RunSomeTask does to the queue, and only such a step: the
\* task leaves the queue, or is replaced by its retry
TaskTaken ==
    \E task \in queue :
        queue' \in { queue \ {task},
                    (queue \ {task}) \cup {[task EXCEPT !.retries = @ + 1]} }

\* the workers are fair to the queue: a task that waits is taken
SpecFair == Init /\ [][NextFair]_vars /\ WF_queue(TaskTaken)

\* RepositorySyncView.post for an authenticated user, given what GitHub
\* answers
Sync(user, repos_data) ==
    /\ \E r \in {sync_repositories(Store, user, repos_data, 0)} :
          /\ repos' = r.db.repos
          /\ last' = [op |-> "sync", user |-> user, count |-> r.value]
    /\ UNCHANGED <<events, queue, commits, sessions, now, secret, timeouts, procs>>

\* pushes to A (id 7) by u1, by u2 and by a pusher without account, and a
\* push to B without repository id by u1; all their commits are old
RepoPayloads ==
    { Payload("A", 7, "e1", <<"s1">>),
      Payload("A", 7, "e2", <<"s2">>),
      Payload("A", 7, "eX", <<"s6">>),
      Payload("B", 0, "e1", <<"s3">>) }

RepoRequests ==
    { Request("push", Signed(JsonBody(p)), JsonBody(p), d) :
        p \in RepoPayloads, d \in DeliveryIds }

\* webhook deliveries, their processing and repository resyncs in any order
NextRepos ==
    \/ \E req \in RepoRequests : Post(req)
    \/ \E task \in queue : RunTask(task, "none")
    \/ \E user \in Users, repos_data \in Listings : Sync(user, repos_data)

SpecRepos == Init /\ [][NextRepos]_vars

\* ------------------------------------------------ workers side by side
\* A run of process_push_event by worker w, statement by statement.  Its
\* transaction sees the committed rows and its own inserts; the other
\* transactions see its inserts only once it has committed.  An INSERT that
\* meets an uncommitted row with the same unique key waits for the other
\* transaction to end.
PayloadOf(w) == events[procs[w].task.event].payload

\* the row w has inserted into repositories, as it is stored on commit
OwnRepos(w) ==
    [j \in 1..Len(procs[w].new_repo) |->
        [id |-> Len(repos) + j, user |-> procs[w].new_repo[j].user,
         github_id |-> procs[w].new_repo[j].github_id,
         full_name |-> procs[w].new_repo[j].full_name]]

RepositoryOf(w) ==
    IF procs[w].new_repo # <<>> THEN Len(repos) + 1 ELSE procs[w].found

OwnCommits(w) ==
    [j \in 1..Len(procs[w].new_commits) |->
        [id |-> Len(commits) + j, repository |-> RepositoryOf(w),
         session |-> 0, sha |-> procs[w].new_commits[j].sha,
         committed_at |-> procs[w].new_commits[j].committed_at]]

\* the store as the transaction of w reads it
View(w) ==
    [events |-> [events EXCEPT ![procs[w].task.event] = procs[w].event],
     repos |-> repos \o OwnRepos(w),
     commits |-> commits \o OwnCommits(w),
     sessions |-> sessions]

Wrote(w) == procs[w].new_repo # <<>> \/ procs[w].new_commits # <<>>

WorkerStep(w, step) ==
    [op |-> "worker", worker |-> w, event |-> procs[w].task.event, step |-> step]

\* exc leaves the try block of w: except clause, rollback, the handlers of
\* the task and the retry
WorkerRaises(w, exc, broken) ==
    /\ \E r \in {TaskHandlers(procs[w].task, now,
                     atomic(Store, ExceptClause(procs[w].task.event, now,
                                       Exc(View(w), exc, broken))))} :
          /\ events' = r.db.events
          /\ queue' = queue \cup
                (IF Retried(procs[w].task, r)
                   THEN {[procs[w].task EXCEPT !.retries = @ + 1]} ELSE {})
          /\ last' = [op |-> "task", event |-> procs[w].task.event,
                      raised |-> TRUE, exc |-> r.exc, result |-> NoResult,
                      wrote |-> Wrote(w)]
    /\ procs' = [procs EXCEPT ![w] = Idle]
    /\ UNCHANGED <<repos, commits, sessions, now, secret, timeouts>>

\* the function returns r.value and the transaction commits r.db
WorkerReturns(w, r) ==
    /\ events' = r.db.events
    /\ repos' = r.db.repos
    /\ commits' = r.db.commits
    /\ last' = [op |-> "task", event |-> procs[w].task.event,
                raised |-> FALSE, exc |-> None, result |-> r.value,
                wrote |-> Wrote(w)]
    /\ procs' = [procs EXCEPT ![w] = Idle]
    /\ UNCHANGED <<queue, sessions, now, secret, timeouts>>

\* lines 33-69 and 109-130: the worker takes the task, marks the event,
\* validates, resolves the user and looks the repository up.  A run that
\* ends before any INSERT is taken as a whole.
W_Start(w, task) ==
    /\ procs[w] = Idle
    /\ task \in queue
    /\ LET p == events[task.event].payload
           user == resolve_user(Store, p.email, p.gid)
           found == lookup_repository(Store, p.full_name, p.gid, user)
       IN IF p.full_name = NoName \/ NoCommits(p.commits) \/ user = None
               \/ found.raised
            THEN /\ \E r \in {TaskBody(Store, task, "none", now)},
                       b \in {Body(Store, task.event, "none", now)} :
                       TaskEffect(task, r, b)
                 /\ UNCHANGED <<now, secret, timeouts, procs>>
            ELSE /\ queue' = queue \ {task}
                 /\ procs' = [procs EXCEPT ![w] =
                       [pc |-> IF found.value = 0
                                 THEN "insert_repo" ELSE "check_commit",
                        task |-> task, user |-> user,
                        event |-> IF found.value = 0
                                    THEN mark_processing(events[task.event])
                                    ELSE [mark_processing(events[task.event])
                                             EXCEPT !.user = user],
                        found |-> found.value, new_repo |-> <<>>,
                        new_commits |-> <<>>, k |-> 1, commits_created |-> 0]]
                 /\ last' = [op |-> "worker", worker |-> w,
                             event |-> task.event, step |-> "start"]
                 /\ UNCHANGED <<events, repos, commits, sessions, now, secret,
                                timeouts>>

\* another transaction holds an uncommitted repository with this github_id
RepoInsertWaits(w) ==
    \E o \in Workers \ {w} :
        /\ procs[o].pc # "idle"
        /\ procs[o].new_repo # <<>>
        /\ procs[o].new_repo[1].github_id = PayloadOf(w).gid

\* lines 133-147 and 72-73: GitHubRepository.objects.create
W_InsertRepo(w) ==
    /\ procs[w].pc = "insert_repo"
    /\ ~RepoInsertWaits(w)
    /\ \E r \in {RepositoryCreate(View(w), procs[w].user, PayloadOf(w).gid,
                                   PayloadOf(w).full_name)} :
          IF r.raised
            THEN WorkerRaises(w, r.exc, r.broken)
            ELSE /\ procs' = [procs EXCEPT
                       ![w].pc = "check_commit",
                       ![w].new_repo =
                           <<[user |-> procs[w].user,
                              github_id |-> PayloadOf(w).gid,
                              full_name |-> PayloadOf(w).full_name]>>,
                       ![w].event = [@ EXCEPT !.user = procs[w].user]]
                 /\ last' = WorkerStep(w, "insert_repo")
                 /\ UNCHANGED <<events, queue, repos, commits, sessions, now,
                                secret, timeouts>>

\* lines 201-210: the next commit descriptor and the exists() query
W_CheckCommit(w) ==
    /\ procs[w].pc = "check_commit"
    /\ procs[w].k <= Len(PayloadOf(w).commits)
    /\ procs' = [procs EXCEPT
          ![w].pc = IF PayloadOf(w).commits[procs[w].k] = None
                        \/ ShaExists(View(w), PayloadOf(w).commits[procs[w].k])
                      THEN "check_commit" ELSE "insert_commit",
          ![w].k = IF PayloadOf(w).commits[procs[w].k] = None
                        \/ ShaExists(View(w), PayloadOf(w).commits[procs[w].k])
                     THEN @ + 1 ELSE @]
    /\ last' = WorkerStep(w, "check_commit")
    /\ UNCHANGED <<events, queue, repos, commits, sessions, now, secret,
                   timeouts>>

\* another transaction holds an uncommitted commit with this sha
CommitInsertWaits(w) ==
    \E o \in Workers \ {w} :
        /\ procs[o].pc # "idle"
        /\ \E j \in DOMAIN procs[o].new_commits :
              procs[o].new_commits[j].sha = PayloadOf(w).commits[procs[w].k]

\* lines 212-247: Commit.objects.create
W_InsertCommit(w) ==
    /\ procs[w].pc = "insert_commit"
    /\ ~CommitInsertWaits(w)
    /\ \E c \in {CommitCreate(View(w), RepositoryOf(w),
                       PayloadOf(w).commits[procs[w].k],
                       parse_timestamp(
                           TimestampOf(PayloadOf(w).commits[procs[w].k]), now))} :
          IF c.raised
            THEN WorkerRaises(w, c.exc, c.broken)
            ELSE /\ procs' = [procs EXCEPT
                       ![w].pc = "check_commit",
                       ![w].new_commits = Append(@,
                           [sha |-> PayloadOf(w).commits[procs[w].k],
                            committed_at |-> parse_timestamp(
                                TimestampOf(PayloadOf(w).commits[procs[w].k]),
                                now)]),
                       ![w].commits_created = @ + 1,
                       ![w].k = @ + 1]
                 /\ last' = WorkerStep(w, "insert_commit")
                 /\ UNCHANGED <<events, queue, repos, commits, sessions, now,
                                secret, timeouts>>

\* lines 78-92: _group_sessions, mark_completed, return; the transaction
\* commits
W_Finish(w) ==
    /\ procs[w].pc = "check_commit"
    /\ procs[w].k > Len(PayloadOf(w).commits)
    /\ \E r \in {AfterGrouping(procs[w].task.event, "none", now,
                       procs[w].commits_created,
                       group_sessions(View(w), RepositoryOf(w), now))} :
          IF r.raised
            THEN WorkerRaises(w, r.exc, r.broken)
            ELSE WorkerReturns(w, r)

\* ------------------------------------- grouping requests side by side
\* SessionGroupView.post, one statement group at a time: the queryset of
\* session-less commits is read once, when the loop starts
G_Start(g, user) ==
    /\ procs[g] = Idle
    /\ \E todo \in OrderedBy(Store, Ungrouped(Store, user)) :
          IF todo = <<>>
            THEN /\ last' = [op |-> "group", user |-> user, count |-> 0]
                 /\ UNCHANGED procs
            ELSE /\ procs' = [procs EXCEPT ![g] =
                       [pc |-> "loop", user |-> user, todo |-> todo,
                        current_session |-> 0, last_commit_time |-> NoTime,
                        sessions_created |-> 0]]
                 /\ last' = [op |-> "grouper", worker |-> g, step |-> "start"]
    /\ UNCHANGED <<events, queue, repos, commits, sessions, now, secret,
                   timeouts>>

\* one pass of the loop of lines 118-132 on the rows as they are now; after
\* the last pass the request answers
G_Step(g) ==
    /\ procs[g].pc = "loop"
    /\ LET p == procs[g]
           c == Head(p.todo)
           new == p.current_session = 0
                    \/ is_new_session(p.last_commit_time, commits[c].committed_at)
           sid == IF new THEN Len(sessions) + 1 ELSE p.current_session
           created == IF new THEN p.sessions_created + 1 ELSE p.sessions_created
       IN /\ \E db \in {Assign(IF new
                                  THEN create_new_session(Store, p.user, commits[c])
                                  ELSE Store, c, sid)} :
                /\ commits' = db.commits
                /\ sessions' = db.sessions
          /\ IF Tail(p.todo) = <<>>
               THEN /\ procs' = [procs EXCEPT ![g] = Idle]
                    /\ last' = [op |-> "group", user |-> p.user,
                                count |-> created]
               ELSE /\ procs' = [procs EXCEPT ![g] =
                          [p EXCEPT !.todo = Tail(@), !.current_session = sid,
                                    !.last_commit_time = commits[c].committed_at,
                                    !.sessions_created = created]]
                    /\ last' = [op |-> "grouper", worker |-> g, step |-> "loop"]
    /\ UNCHANGED <<events, queue, repos, now, secret, timeouts>>

\* two pushes to the same new repository A that share commit s2, and a push
\* to B that shares its commits with the first; every transaction inserts
\* its rows in the same order, so no two wait for each other
WorkerPayloads ==
    { Payload("A", 7, "e1", <<"s1", "s2">>),
      Payload("A", 7, "e1", <<"s2", "s3">>),
      Payload("B", 0, "e1", <<"s1", "s2">>) }

WorkerRequests ==
    { Request("push", Signed(JsonBody(p)), JsonBody(p), d) :
        p \in WorkerPayloads, d \in DeliveryIds }

NextWorkers ==
    \/ \E req \in WorkerRequests : Post(req)
    \/ \E w \in Workers, task \in queue : W_Start(w, task)
    \/ \E w \in Workers : W_InsertRepo(w)
    \/ \E w \in Workers : W_CheckCommit(w)
    \/ \E w \in Workers : W_InsertCommit(w)
    \/ \E w \in Workers : W_Finish(w)
    \/ \E g \in Groupers, user \in Users : G_Start(g, user)
    \/ \E g \in Groupers : G_Step(g)

SpecWorkers == Init /\ [][NextWorkers]_vars

\* the endpoint alone, open to every sender, with the secret configured or
\* not
InitHttp ==
    /\ events = <<>>
    /\ queue = {}
    /\ repos = <<>>
    /\ commits = <<>>
    /\ sessions = <<>>
    /\ now = Now0
    /\ secret \in Secrets
    /\ timeouts = 0
    /\ last = [op |-> "init"]
    /\ procs = [p \in Workers \cup Groupers |-> Idle]

NextHttp == \E req \in HttpRequests : Post(req)

SpecHttp == InitHttp /\ [][NextHttp]_vars

\* =================================================================== claims
\* the step is one execution of the task for event e that the soft time
\* limit did not interrupt
Ran(e) ==
    /\ last'.op = "task"
    /\ last'.event = e
    /\ last'.exc # SoftTimeLimitExceeded

CommittedAt(sha) == parse_timestamp(TimestampOf(sha), now)

Gap(t1, t2) == IF t1 <= t2 THEN t2 - t1 ELSE t1 - t2

\* ---- C1
C1_Scenario(e) ==
    /\ events[e].payload.full_name # NoName
    /\ \A i \in DOMAIN repos :
          /\ repos[i].full_name # events[e].payload.full_name
          /\ repos[i].github_id # events[e].payload.gid
    /\ Len(events[e].payload.commits) = 2
    /\ events[e].payload.commits[1] # events[e].payload.commits[2]
    /\ \A k \in 1..2 : \A i \in DOMAIN commits :
          commits[i].sha # events[e].payload.commits[k]
    /\ Gap(CommittedAt(events[e].payload.commits[1]),
           CommittedAt(events[e].payload.commits[2])) <= 30
    /\ \E u \in Users : Email(u) = events[e].payload.email

C1_Outcome(e) ==
    /\ ~last'.raised
    /\ last'.result.commits_created = 2
    /\ last'.result.sessions_created = 1
    /\ events'[e].status = "completed"
    /\ Len(repos') = Len(repos) + 1
    /\ Len(sessions') = Len(sessions) + 1
    /\ sessions'[Len(sessions')].started_at =
          Min({CommittedAt(events[e].payload.commits[k]) : k \in 1..2})
    /\ sessions'[Len(sessions')].ended_at =
          Max({CommittedAt(events[e].payload.commits[k]) : k \in 1..2})

\* C1: processing a push event that names a repository not yet stored, with
\* two new commits at most 30 minutes apart and a pusher email of an account,
\* returns commits_created = 2 and sessions_created = 1, completes the event
\* and leaves one new repository and one new session spanning both commits.
C1_PushCreatesOneSession ==
    [][\A e \in DOMAIN events : (Ran(e) /\ C1_Scenario(e)) => C1_Outcome(e)]_vars

\* ---- C2
UniqueSha ==
    \A i, j \in DOMAIN commits : commits[i].sha = commits[j].sha => i = j

AllExist(e) ==
    \A k \in DOMAIN events[e].payload.commits :
        \E i \in DOMAIN commits : commits[i].sha = events[e].payload.commits[k]

C2_Step ==
    \A e \in DOMAIN events :
        (Ran(e) /\ AllExist(e)) =>
            /\ commits' = commits
            /\ ~last'.raised => last'.result.commits_created = 0

\* C2: no two Commit rows share a sha, whatever is processed (the same sha in
\* two events, in two repositories or twice in one payload), and a run whose
\* commits all exist already leaves the commits as they are and reports
\* commits_created = 0.
C2_ShaIngestedOnce == []UniqueSha /\ [][C2_Step]_vars

C2_Witness ==
    /\ last.op = "task"
    /\ ~last.raised
    /\ events[last.event].payload.commits # <<>>
    /\ events[last.event].status = "completed"
    /\ last.result.commits_created = 0
    /\ \E i \in DOMAIN commits :
          /\ commits[i].sha = events[last.event].payload.commits[1]
          /\ repos[commits[i].repository].full_name
                # events[last.event].payload.full_name

\* ---- C3
\* C3: whenever process_push_event raises (the soft time limit, which the
\* task records in words of its own, left aside), the stored event
\* afterwards has status failed and error_message equal to the exception's
\* message.
C3_FailureIsRecorded ==
    [][\A e \in DOMAIN events :
          (Ran(e) /\ last'.raised) =>
              /\ events'[e].status = "failed"
              /\ events'[e].error_message = last'.exc]_vars

\* ---- C4
C4_Step ==
    \A e \in DOMAIN events :
        (last'.op = "task" /\ last'.event = e) =>
            /\ last'.raised =>
                  /\ repos' = repos
                  /\ commits' = commits
                  /\ sessions' = sessions
            /\ (repos' # repos \/ commits' # commits \/ sessions' # sessions) =>
                  events'[e].status = "completed"
            /\ repos' # repos =>
                  \A k \in DOMAIN events[e].payload.commits :
                      \E i \in DOMAIN commits' :
                          commits'[i].sha = events[e].payload.commits[k]

\* C4: a run that raises, at whatever step, leaves the Repository, Commit and
\* CodingSession rows and every session assignment as they were; a run that
\* changes any of them completes the event, and a run that creates a
\* repository also stores the commits of its payload.
C4_AllOrNothing == [][C4_Step]_vars

C4_Witness ==
    /\ last.op = "task"
    /\ last.raised
    /\ last.wrote
    /\ repos = <<>>
    /\ commits = <<>>

\* ---- C5
UniqueDelivery ==
    \A i, j \in DOMAIN events :
        events[i].delivery_id = events[j].delivery_id => i = j

C5_Step ==
    (/\ last'.op = "post"
     /\ \E i \in DOMAIN events : events[i].delivery_id = last'.delivery_id) =>
        /\ events' = events
        /\ queue' = queue
        /\ commits' = commits

\* C5: at most one WebhookEvent exists per delivery_id; a POST whose
\* delivery_id is already recorded creates no event, enqueues no task and
\* leaves the commits unchanged.
C5_OneEventPerDelivery == []UniqueDelivery /\ [][C5_Step]_vars

C5_Witness ==
    /\ last.op = "post"
    /\ last.status = 500
    /\ \E i \in DOMAIN events :
          /\ events[i].delivery_id = last.delivery_id
          /\ events[i].event_type = "push"

\* ---- C6
\* C6: the stored status of an event (here: of a push event, which is what
\* the workers process) becomes completed or failed only from processing,
\* and processing only from pending.
C6_NoTransitionSkipsProcessing ==
    \A e \in {i \in DOMAIN events : events[i].event_type = "push"} :
        \A k \in 1..(Len(events[e].history) - 1) :
            /\ events[e].history[k + 1] \in {"completed", "failed"} =>
                  events[e].history[k] = "processing"
            /\ events[e].history[k + 1] = "processing" =>
                  events[e].history[k] = "pending"

\* ---- C7
\* C7: once the stored status of an event is completed or failed, no later
\* run changes its status, processed_at or error_message.
C7_TerminalStatusIsFinal ==
    [][\A e \in DOMAIN events :
          events[e].status \in {"completed", "failed"} =>
              /\ events'[e].status = events[e].status
              /\ events'[e].processed_at = events[e].processed_at
              /\ events'[e].error_message = events[e].error_message]_vars

\* ---- C8
C8_NoOwner(e) ==
    /\ events[e].payload.commits # <<>>
    /\ \/ events[e].payload.gid = 0
       \/ \A i \in DOMAIN repos : repos[i].github_id # events[e].payload.gid
    /\ \A u \in Users : Email(u) # events[e].payload.email

C8_Outcome(e) ==
    /\ ~last'.raised
    /\ last'.result.commits_created = 0
    /\ last'.result.sessions_created = 0
    /\ events'[e].status = "failed"
    /\ events'[e].error_message \notin {None, ""}
    /\ repos' = repos
    /\ commits' = commits
    /\ sessions' = sessions

\* C8 as claimed: a run to completion of a push event with commits, whose
\* repository id matches no stored repository and whose pusher email matches
\* no account, leaves the event failed with a non-empty error_message,
\* returns zero counts without raising and creates no repository, commit or
\* session.
C8_Original ==
    [][\A e \in DOMAIN events : (Ran(e) /\ C8_NoOwner(e)) => C8_Outcome(e)]_vars

\* C8 as amended: the same holds of every such push event whose payload
\* carries a repository full_name (without one the run raises ValueError
\* before any user is looked up).
C8_UnresolvedUserFailsEvent ==
    [][\A e \in DOMAIN events :
          (Ran(e) /\ C8_NoOwner(e) /\ events[e].payload.full_name # NoName) =>
              C8_Outcome(e)]_vars

C8_Witness ==
    /\ last.op = "task"
    /\ ~last.raised
    /\ last.result.error = "User not found"
    /\ events[last.event].status = "failed"
    /\ events[last.event].payload.email = "eX"

\* ---- C9
\* C9: a push event with a repository full_name and no commits is completed,
\* returns zero counts and leaves repositories, commits, sessions and the
\* event's user as they were.
C9_EmptyPushIsNoOp ==
    [][\A e \in DOMAIN events :
          (/\ Ran(e)
           /\ events[e].payload.full_name # NoName
           /\ events[e].payload.commits = <<>>) =>
              /\ ~last'.raised
              /\ last'.result.commits_created = 0
              /\ last'.result.sessions_created = 0
              /\ events'[e].status = "completed"
              /\ events'[e].user = events[e].user
              /\ repos' = repos
              /\ commits' = commits
              /\ sessions' = sessions]_vars

C9_Witness ==
    /\ last.op = "task"
    /\ ~last.raised
    /\ events[last.event].payload.commits = <<>>
    /\ events[last.event].status = "completed"
    /\ events[last.event].user = None
    /\ events[last.event].payload.email = "e1"

\* ---- C10
\* i and j are neighbours in committed_at order among the commits of S
Neighbours(cs, S, i, j) ==
    /\ i # j
    /\ cs[i].committed_at <= cs[j].committed_at
    /\ \A k \in S \ {i, j} :
          ~(cs[i].committed_at < cs[k].committed_at
            /\ cs[k].committed_at < cs[j].committed_at)

C10_Inv ==
    \A sid \in DOMAIN sessions :
        \A i, j \in {c \in DOMAIN commits : commits[c].session = sid} :
            Neighbours(commits, {c \in DOMAIN commits : commits[c].session = sid},
                       i, j) =>
                commits[j].committed_at - commits[i].committed_at <= 30

\* the candidates of the run that takes the step: the commits it assigns
Assigned == {c \in DOMAIN commits : commits[c].session = 0 /\ commits'[c].session # 0}

C10_Run ==
    last'.op = "group" =>
        \A i, j \in Assigned :
            Neighbours(commits, Assigned, i, j) =>
                /\ commits[j].committed_at - commits[i].committed_at > 30 =>
                      commits'[i].session # commits'[j].session
                /\ commits[j].committed_at - commits[i].committed_at <= 30 =>
                      commits'[i].session = commits'[j].session

SpansMembers(db, sid) ==
    /\ db.sessions[sid].started_at = Min(MemberTimes(db, sid))
    /\ db.sessions[sid].ended_at = Max(MemberTimes(db, sid))

\* C11: update_stats leaves a session that has member commits with
\* started_at the least and ended_at the greatest committed_at of its
\* members, and every stored session, after whatever runs of group_commits
\* touched it, spans its members in that way.
C11_SessionSpansMembers ==
    \A sid \in DOMAIN sessions :
        Members(Store, sid) # {} =>
            /\ SpansMembers(Store, sid)
            /\ SpansMembers(update_stats(Store, sid), sid)

C11_Witness ==
    /\ last.op = "group"
    /\ \E sid \in DOMAIN sessions :
          /\ Cardinality(Members(Store, sid)) = 2
          /\ sessions[sid].started_at < sessions[sid].ended_at

\* ---- C12
C12_Step ==
    /\ \A c \in DOMAIN commits :
          commits[c].session # 0 => commits'[c].session = commits[c].session
    /\ \A user \in Users :
          (/\ last'.op = "group"
           /\ last'.user = user
           /\ Ungrouped(Store, user) = {}) =>
              /\ last'.count = 0
              /\ sessions' = sessions
              /\ commits' = commits

\* C12: a grouping run for a user none of whose commits has a null session
\* creates no session, returns 0 and changes neither a commit's session nor
\* a session's aggregates; no step ever changes the session of a commit
\* that has one.
C12_RegroupingChangesNothing == [][C12_Step]_vars

C12_Witness ==
    /\ last.op = "group"
    /\ last.count = 0
    /\ \E c \in DOMAIN commits :
          /\ repos[commits[c].repository].user = last.user
          /\ commits[c].session # 0

\* ---- C13
\* C13 (for the commits that already have a session): the members of a
\* session are contiguous in committed_at order among the commits of their
\* user; no commit of that user in another session lies strictly between
\* two members of the session.
C13_SessionsAreContiguous ==
    \A i, j, k \in DOMAIN commits :
        (/\ commits[i].session # 0
         /\ commits[i].session = commits[j].session
         /\ commits[k].session # 0
         /\ repos[commits[k].repository].user = repos[commits[i].repository].user
         /\ commits[i].committed_at < commits[k].committed_at
         /\ commits[k].committed_at < commits[j].committed_at) =>
            commits[k].session = commits[i].session

\* ---- C14
\* C14: verify_github_signature(payload, header, secret) is true exactly
\* when header is 'sha256=' followed by the HMAC-SHA256 hex digest of the
\* payload under the secret, and false for every other header: empty,
\* without the prefix, malformed, with a wrong digest or a digest of another
\* payload.
C14_ExactHeaderOnly ==
    [][(last'.op = "post" /\ secret # "") =>
          (verify_github_signature(last'.body, last'.signature, secret)
              <=> last'.signature = <<Prefix, HMAC(secret, last'.body)>>)]_vars

\* ---- C15
\* C15: with the secret not configured every POST, whatever its signature,
\* body and event type, is answered 403, stores no event and enqueues no
\* task.
C15_FailsClosed ==
    [][(secret = "" /\ last'.op = "post") =>
          /\ last'.status = 403
          /\ events' = events
          /\ queue' = queue]_vars

C15_Witness ==
    /\ secret = ""
    /\ last.op = "post"
    /\ last.header = "ping"
    /\ last.status = 403
    /\ events = <<>>

\* ---- C16
C16_Answer ==
    \A req \in HttpRequests :
        /\ post(Store, queue, req, now).status \in {403, 400, 200} =>
              /\ post(Store, queue, req, now).db = Store
              /\ post(Store, queue, req, now).queue = queue
        /\ ~verify_signature(req.body, req.signature) =>
              post(Store, queue, req, now).status = 403
        /\ (verify_signature(req.body, req.signature) /\ ~req.body.parses) =>
              post(Store, queue, req, now).status = 400
        /\ (/\ verify_signature(req.body, req.signature)
            /\ req.body.parses
            /\ req.event_header = "ping") =>
              post(Store, queue, req, now).status = 200

C16_Step ==
    (last'.op = "post" /\ last'.status \in {403, 400, 200}) =>
        /\ events' = events
        /\ queue' = queue

\* C16: a POST answered 403 (signature check fails), 400 (signature valid,
\* body not JSON) or 200 (valid signature, JSON body, ping) leaves the
\* events and the queue as they were; the signature is checked first, so a
\* body that is not JSON under a bad signature is answered 403.
C16_RejectedPostsChangeNothing == []C16_Answer /\ [][C16_Step]_vars

C16_Witness ==
    /\ last.op = "post"
    /\ last.status = 400
    /\ events # <<>>
    /\ queue # {}

\* ---- C17
C17_Step ==
    (last'.op = "post" /\ last'.header = "push") =>
        /\ last'.status = 202 <=>
              \A i \in DOMAIN events : events[i].delivery_id # last'.delivery_id
        /\ last'.status = 202 =>
              /\ Len(events') = Len(events) + 1
              /\ last'.event = Len(events')
              /\ events'[last'.event].delivery_id = last'.delivery_id
              /\ events'[last'.event].status = "pending"
              /\ queue' = queue \cup {[event |-> last'.event, retries |-> 0]}
              /\ \A task \in queue : task.event # last'.event
              /\ repos' = repos
              /\ commits' = commits
              /\ sessions' = sessions

\* C17: a push POST with a valid signature, a JSON body and a new delivery
\* id is answered 202 with the id of the event it stored as pending, and
\* enqueues exactly one task, for that event; no task in the queue names an
\* event that is not stored, and the request itself creates no repository,
\* commit or session.
C17_AcceptedPushIsStoredThenQueued ==
    /\ [](\A task \in queue : task.event \in DOMAIN events)
    /\ [][C17_Step]_vars

C17_Witness ==
    /\ last.op = "post"
    /\ last.header = "push"
    /\ last.status = 202
    /\ last.event = 2
    /\ events[2].status = "pending"
    /\ [event |-> 2, retries |-> 0] \in queue
    /\ commits # <<>>

\* ---- C18
C18_Step ==
    (/\ last'.op = "post"
     /\ last'.header \notin {"push", "ping"}
     /\ last'.status = 202) =>
        /\ Len(events') = Len(events) + 1
        /\ last'.event = Len(events')
        /\ events'[last'.event].event_type =
              (IF last'.header = "pull_request" THEN "pull_request" ELSE "other")
        /\ events'[last'.event].status = "completed"
        /\ queue' = queue
        /\ repos' = repos
        /\ commits' = commits
        /\ sessions' = sessions

C18_NeverProcessed ==
    /\ \A task \in queue : events[task.event].event_type = "push"
    /\ last.op = "task" => events[last.event].event_type = "push"

\* C18: an accepted POST whose event type is neither push nor ping is
\* stored (an unknown type as 'other'), completed when the 202 is given,
\* never enqueued and never processed, and creates no repository, commit or
\* session.
C18_OtherEventsAreNoOps == []C18_NeverProcessed /\ [][C18_Step]_vars

C18_Witness ==
    /\ last.op = "post"
    /\ last.header = "issues"
    /\ last.status = 202
    /\ events[last.event].event_type = "other"
    /\ events[last.event].status = "completed"
    /\ \A task \in queue : task.event # last.event

\* ---- C19
HasTask(q, e) == \E task \in q : task.event = e

C19_Bounded ==
    /\ \A task \in queue : task.retries <= max_retries
    /\ \A t1, t2 \in queue : t1.event = t2.event => t1 = t2

C19_Step ==
    \A e \in DOMAIN events :
        /\ (last'.op = "task" /\ last'.event = e) => HasTask(queue, e)
        /\ ~HasTask(queue, e) => ~HasTask(queue', e)
        /\ (last'.op = "task" /\ last'.event = e /\ last'.raised) =>
              /\ \A task \in queue' :
                    task.event = e =>
                        \E old \in queue :
                            old.event = e /\ task.retries = old.retries + 1
              /\ ~HasTask(queue', e) =>
                    /\ events'[e].status = "failed"
                    /\ events'[e].error_message \notin {None, ""}

\* C19: every attempt that raises uses up one of max_retries = 3 retries, so
\* an event is attempted at most four times; after the attempt that is not
\* retried its stored status is failed with a non-empty error_message, and
\* an event whose task has left the queue is never attempted again.
C19_RetriesAreBounded == []C19_Bounded /\ [][C19_Step]_vars

C19_Witness ==
    /\ last.op = "task"
    /\ last.raised
    /\ last.exc = "ValueError"
    /\ ~HasTask(queue, last.event)
    /\ events[last.event].status = "failed"
    /\ events[last.event].error_message = MaxRetriesMessage("ValueError")

\* ---- C20
\* C20: a push event whose payload has no repository full_name is failed
\* with a message by its first run, creates nothing and is not retried.
C20_MalformedPayloadFailsOnce ==
    [][\A e \in DOMAIN events :
          (Ran(e) /\ events[e].payload.full_name = NoName) =>
              /\ events'[e].status = "failed"
              /\ events'[e].error_message \notin {None, ""}
              /\ ~HasTask(queue', e)
              /\ repos' = repos
              /\ commits' = commits
              /\ sessions' = sessions]_vars

\* ---- C27
\* C27: every member commit of a session belongs to the session's repository,
\* and that repository is owned by the session's user: no session mixes
\* commits of two repositories.
C27_SessionHasOneRepository ==
    \A i \in DOMAIN commits :
        commits[i].session # 0 =>
            /\ commits[i].repository = sessions[commits[i].session].repository
            /\ repos[commits[i].repository].user
                  = sessions[commits[i].session].user

\* ---- C28
\* the payload of e names a repository and has commits, its owner resolves,
\* and no repository of that owner matches by non-zero external id or by
\* full_name
C28_Scenario(e) ==
    LET p == events[e].payload
        user == resolve_user(Store, p.email, p.gid)
    IN /\ p.full_name # NoName
       /\ p.commits # <<>>
       /\ user # None
       /\ \A i \in DOMAIN repos :
             repos[i].user = user =>
                 /\ repos[i].full_name # p.full_name
                 /\ (p.gid = 0 \/ repos[i].github_id # p.gid)

C28_Outcome(e) ==
    LET p == events[e].payload
        user == resolve_user(Store, p.email, p.gid)
        r == get_or_create_repository(Store, p.full_name, p.gid, user)
    IN /\ ~r.raised
       /\ Len(r.db.repos) = Len(repos) + 1
       /\ r.db.repos[r.value].user = user
       /\ r.db.repos[r.value].full_name = p.full_name
       /\ r.db.repos[r.value].github_id = p.gid
       /\ last'.exc \notin {"IntegrityError", "TransactionManagementError"}

\* C28: repository get-or-create yields a repository for a resolved owner:
\* when none of the owner's repositories matches by non-zero external id or by
\* full_name, the run creates one (external id 0 when the payload has none)
\* and this does not fail, also when a repository with external id 0 exists.
C28_GetOrCreateAlwaysYields ==
    [][\A e \in DOMAIN events : (Ran(e) /\ C28_Scenario(e)) => C28_Outcome(e)]_vars

\* ---- C29
\* C29: a WebhookEvent whose stored status is completed has no error_message,
\* whatever earlier attempts wrote.
C29_CompletedHasNoError ==
    \A e \in DOMAIN events :
        events[e].status = "completed" => events[e].error_message = None

\* ---- C30
C30_Step ==
    last'.op = "group" =>
        /\ \A sid \in DOMAIN sessions :
              /\ sessions'[sid] = sessions[sid]
              /\ {i \in DOMAIN commits' : commits'[i].session = sid}
                    = Members(Store, sid)
        /\ \A i \in DOMAIN commits :
              /\ commits[i].session # 0 => commits'[i] = commits[i]
              /\ commits'[i] # commits[i] =>
                    /\ commits'[i].session \notin DOMAIN sessions
                    /\ commits'[i] = [commits[i] EXCEPT
                                         !.session = commits'[i].session]
        /\ DOMAIN commits' = DOMAIN commits
        /\ repos' = repos
        /\ events' = events

\* C30: a run of group_commits changes only commits whose session was null
\* when it started, and only their session, which is one the run created;
\* every session that existed keeps its row and its member set.
C30_GroupingLeavesSessionsAlone == [][C30_Step]_vars

\* the last grouping run put a commit into a new session although it lies
\* within the threshold after the last commit of an older session of the
\* same user
C30_Witness ==
    /\ last.op = "group"
    /\ last.count > 0
    /\ \E i \in DOMAIN commits : \E sid \in DOMAIN sessions :
          /\ commits[i].session > sid
          /\ sessions[sid].user = sessions[commits[i].session].user
          /\ sessions[sid].repository = commits[i].repository
          /\ commits[i].committed_at >= sessions[sid].ended_at
          /\ commits[i].committed_at - sessions[sid].ended_at
                <= SESSION_TIMEOUT_MINUTES
          /\ sessions[commits[i].session].total_commits = 1

\* ---- C21
\* the run of the step was interrupted by the soft time limit
C21_TimeoutStep ==
    (last'.op = "task" /\ last'.exc = SoftTimeLimitExceeded) =>
        /\ last'.raised
        /\ events'[last'.event].status = "failed"
        /\ events'[last'.event].error_message = "Task timed out"

C21_Settled(e) ==
    /\ e \in DOMAIN events
    /\ events[e].status \in {"completed", "failed"}

C22_OneRepositoryPerName ==
    \A i, j \in DOMAIN repos :
        (repos[i].user = repos[j].user /\ repos[i].full_name = repos[j].full_name)
            => i = j

\* ---- C26
\* the owner the priority rule names for the payload of e
C26_Owner(e) ==
    LET p == events[e].payload
        known == {i \in DOMAIN repos : p.gid # 0 /\ repos[i].github_id = p.gid}
        account == {u \in Users : Email(u) = p.email}
    IN IF known # {} THEN repos[CHOOSE i \in known : TRUE].user
       ELSE IF account # {} THEN CHOOSE u \in account : TRUE
       ELSE None

C26_Step ==
    \A e \in DOMAIN events :
        (/\ Ran(e)
         /\ events[e].payload.full_name # NoName
         /\ events[e].payload.commits # <<>>) =>
            /\ resolve_user(Store, events[e].payload.email, events[e].payload.gid)
                  = C26_Owner(e)
            /\ C26_Owner(e) = None =>
                  /\ ~last'.raised
                  /\ last'.result.error = "User not found"
                  /\ events'[e].user = None
                  /\ repos' = repos
                  /\ commits' = commits
                  /\ sessions' = sessions
            /\ (C26_Owner(e) # None /\ ~last'.raised) =>
                  /\ events'[e].user = C26_Owner(e)
                  /\ \A i \in DOMAIN commits' \ DOMAIN commits :
                        repos'[commits'[i].repository].user = C26_Owner(e)
                  /\ \A i \in DOMAIN repos : repos'[i] = repos[i]
                  /\ \A i \in DOMAIN repos' \ DOMAIN repos :
                        repos'[i].user = C26_Owner(e)

\* C26: the user of a push is the owner of the stored repository that has the
\* payload's external id, also when the pusher email is another account's;
\* without such a repository it is the account with the pusher email; without
\* either it is none and the run creates nothing.  Resolving changes no row.
C26_ResolutionPriority == [][C26_Step]_vars

\* a push by e2 (account u2) to a repository u1 owns was completed for u1
C26_Witness ==
    /\ last.op = "task"
    /\ ~last.raised
    /\ events[last.event].status = "completed"
    /\ events[last.event].payload.email = "e2"
    /\ events[last.event].user = "u1"
    /\ \E i \in DOMAIN commits :
          /\ commits[i].sha = events[last.event].payload.commits[1]
          /\ repos[commits[i].repository].user = "u1"

\* ---- C23
\* w is about to insert its repository although a committed row of its
\* owner matches the payload by now: it lost the race for the creation
C23_LostRace(w) ==
    /\ procs[w].pc = "insert_repo"
    /\ ~lookup_repository(Store, PayloadOf(w).full_name, PayloadOf(w).gid,
                          procs[w].user).raised
    /\ lookup_repository(Store, PayloadOf(w).full_name, PayloadOf(w).gid,
                         procs[w].user).value # 0

C23_Step ==
    \A w \in Workers :
        (C23_LostRace(w) /\ procs'[w] # procs[w]) =>
            /\ procs'[w].pc = "check_commit"
            /\ procs'[w].new_repo = <<>>
            /\ procs'[w].found =
                  lookup_repository(Store, PayloadOf(w).full_name,
                                    PayloadOf(w).gid, procs[w].user).value
            /\ repos' = repos
            /\ events'[procs[w].task.event].status # "failed"

\* C23: when two workers process deliveries that name the same repository
\* not yet stored, one Repository row results, and the worker that loses the
\* creation takes the winner's row and goes on with its run: its run does
\* not raise and its event is not failed.
C23_LoserFallsBackToLookup ==
    /\ [](\A i, j \in DOMAIN repos :
            (repos[i].user = repos[j].user
               /\ repos[i].full_name = repos[j].full_name) => i = j)
    /\ [][C23_Step]_vars

\* ---- C24
\* w is about to insert a commit whose sha another worker has committed
\* since w looked for it
C24_LostRace(w) ==
    /\ procs[w].pc = "insert_commit"
    /\ ShaExists(Store, PayloadOf(w).commits[procs[w].k])

C24_Step ==
    \A w \in Workers :
        (C24_LostRace(w) /\ procs'[w] # procs[w]) =>
            /\ procs'[w].pc = "check_commit"
            /\ procs'[w].k = procs[w].k + 1
            /\ procs'[w].new_commits = procs[w].new_commits
            /\ procs'[w].commits_created = procs[w].commits_created
            /\ events'[procs[w].task.event].status # "failed"

\* C24: when two workers ingest the same new sha, one Commit row results and
\* the worker whose INSERT meets the unique constraint takes the commit as
\* already there: its run goes on to its other commits and is not failed.
C24_DuplicateShaIsSkipped == []UniqueSha /\ [][C24_Step]_vars

\* ---- C25
C25_Step ==
    last'.op \in {"group", "grouper"} =>
        \A i \in DOMAIN commits :
            commits[i].session # 0 => commits'[i].session = commits[i].session

C25_Settled ==
    (\A g \in Groupers : procs[g] = Idle) =>
        \A sid \in DOMAIN sessions :
            /\ Members(Store, sid) # {}
            /\ SpansMembers(Store, sid)
            /\ sessions[sid].total_commits = Cardinality(Members(Store, sid))

\* C25: when two grouping runs over the same user's session-less commits
\* interleave, no run assigns a commit that already has a session, and once
\* the runs have ended every session has a member and its total_commits,
\* started_at and ended_at agree with its members.
C25_InterleavedGroupingIsSafe == [][C25_Step]_vars /\ []C25_Settled

====
